---- MODULE Spec2Model ----
(***************************************************************************)
(* issuerizer: one invocation of the `summarize` command (main.py) over    *)
(* GitHubClient (github.py) and get_summary (llm.py).                      *)
(*                                                                         *)
(* The HTTP server, the environment and the summarizer are the             *)
(* environment: each response is chosen nondeterministically when the      *)
(* request is made.  Python's None and an absent JSON key are written      *)
(* <<>>, a present value v is written <<v>>; JSON null is JNull.           *)
(* The primary record's scalar fields (id, title, user, comments_url ...)  *)
(* are taken to be well formed; the fields the resolvers branch on         *)
(* (sub_issues_summary, parent, parent_issue_url) take every shape.        *)
(***************************************************************************)
EXTENDS Integers, Sequences, FiniteSets, TLC

\* ---------------------------------------------------------------- bounds
\* Longest next-link chain the server holds for the comments.
MaxPages == 3
\* Longest next-link chain the server holds for the events.
MaxEventPages == 1
\* Records on every page but the last (the last page holds 0..PerPage).
PerPage == 1
\* Largest advertised sub-issue count, and longest sub-issue list served.
MaxSubIssues == 1

\* ------------------------------------------------------------ JSON values
JNull == [json_null |-> TRUE]

\* A JSON string that holds a URL, as the sequence of its "/"-separated
\* segments: "https://api.github.com/repos/acme/core" is
\* Str(<<"https:", "", "api.github.com", "repos", "acme", "core">>).
Str(segs) == [str |-> segs]

ApiUrl(tail) == <<"https:", "", "api.github.com">> \o tail

\* repository_url values a parent object may carry.
RepositoryUrls ==
    { ApiUrl(<<"repos", "acme", "core">>),
      ApiUrl(<<"repos", "acme">>),
      <<"">> }

\* A well-formed issue stub as the API serves it (with a key SimpleIssue
\* does not declare).
IssueStub(num, html, rurl) ==
    [ number |-> num, title |-> "t", html_url |-> html, state |-> "open",
      repository_url |-> rurl, node_id |-> "n" ]

\* An object that lacks a required field of SimpleIssue.
MalformedStub == [ title |-> "t", html_url |-> "h", state |-> "open" ]

\* class SimpleIssue(BaseModel): the required fields.
SimpleIssueRequired == {"number", "title", "html_url", "state"}

\* SimpleIssue(**x) raises TypeError unless x is a mapping.
IsMapping(x) == x # JNull

\* SimpleIssue(**x) raises ValidationError unless the required fields are there.
SimpleIssueValid(x) == IsMapping(x) /\ SimpleIssueRequired \subseteq DOMAIN x

\* SimpleIssue(**x): keeps the declared fields, drops the others; an
\* optional field that is missing or null is None.
SimpleIssue(x) ==
    [ number |-> x.number, title |-> x.title, html_url |-> x.html_url,
      state |-> x.state,
      repository_url |->
          IF "repository_url" \in DOMAIN x /\ x.repository_url # JNull
          THEN <<x.repository_url.str>> ELSE <<>> ]

\* -------------------------------------------------------- the collections
\* A chain is [n |-> number of pages, last |-> records on the last page];
\* only the single page of an empty collection is empty.
Chains(coll) ==
    { c \in [ n : 1..(IF coll = "comments" THEN MaxPages ELSE MaxEventPages),
              last : 0..PerPage ] : c.n = 1 \/ c.last >= 1 }

PageSize(c, i) == IF i < c.n THEN PerPage ELSE c.last

\* The records of page i: distinct ids, in the order the server holds them.
PageItems(c, i) == [k \in 1..PageSize(c, i) |-> (i - 1) * PerPage + k]

\* The URL of page i of a collection (comments_url / events_url is page 1).
PageUrl(coll, i) == <<coll, i>>

RECURSIVE ConcatPages(_, _)
ConcatPages(c, i) ==
    IF i > c.n THEN <<>> ELSE PageItems(c, i) \o ConcatPages(c, i + 1)

\* What a single unpaginated fetch of the collection would return.
AllRecords(c) == ConcatPages(c, 1)

\* A header value is a sequence of tokens: a piece of text, or a URL.
Tok(s) == [tok |-> s]
UrlTok(u) == [url |-> u]

\* One entry of a Link header: <url>; rel="next"
Link(u, rel) ==
    <<Tok("<"), UrlTok(u), Tok(">"), Tok(";"), Tok(" "), Tok(rel)>>

\* The entries of the Link header GitHub sends with page i, already
\* separated at ", ": prev, next, last, first, each only when it exists;
\* <<>> is "no Link header".
LinkHeader(coll, c, i) ==
       (IF i > 1 THEN <<Link(PageUrl(coll, i - 1), "rel=\"prev\"")>> ELSE <<>>)
    \o (IF i < c.n THEN <<Link(PageUrl(coll, i + 1), "rel=\"next\"")>> ELSE <<>>)
    \o (IF i < c.n THEN <<Link(PageUrl(coll, c.n), "rel=\"last\"")>> ELSE <<>>)
    \o (IF i > 1 THEN <<Link(PageUrl(coll, 1), "rel=\"first\"")>> ELSE <<>>)

\* 'rel="next"' in link
HasToken(link, s) == \E k \in 1..Len(link) : link[k] = Tok(s)

\* link.split(";")[0]
BeforeSemicolon(link) ==
    IF HasToken(link, ";")
    THEN SubSeq(link, 1,
           (CHOOSE k \in 1..Len(link) :
               link[k] = Tok(";") /\ \A j \in 1..(k - 1) : link[j] # Tok(";")) - 1)
    ELSE link

\* s.strip("<>")
RECURSIVE StripAngles(_)
StripAngles(s) ==
    IF s = <<>> THEN s
    ELSE IF Head(s) \in {Tok("<"), Tok(">")} THEN StripAngles(Tail(s))
    ELSE IF s[Len(s)] \in {Tok("<"), Tok(">")}
         THEN StripAngles(SubSeq(s, 1, Len(s) - 1))
    ELSE s

\* The next-page URL taken from entry k of the header, None if it is empty.
LinkTarget(link) ==
    LET u == StripAngles(BeforeSemicolon(link))
    IN  IF u = <<>> THEN <<>> ELSE <<u[1].url>>

\* The same scan looking for rel="last": it jumps over the middle pages.
NextUrlByLastRel(links) ==
    IF \E k \in 1..Len(links) : HasToken(links[k], "rel=\"last\"")
    THEN LinkTarget(links[CHOOSE k \in 1..Len(links) :
                              HasToken(links[k], "rel=\"last\"")])
    ELSE <<>>

\* github.py 82-90: the URL of the first link tagged rel="next", else None.
NextUrl(links) ==
    IF \E k \in 1..Len(links) : HasToken(links[k], "rel=\"next\"")
    THEN LinkTarget(links[CHOOSE k \in 1..Len(links) :
                      /\ HasToken(links[k], "rel=\"next\"")
                      /\ \A j \in 1..(k - 1) : ~HasToken(links[j], "rel=\"next\"")])
    ELSE <<>>

\* ------------------------------------------------- Parent-Chain Navigator
\* Python truthiness of an Optional[str] held as <<>> / <<segments>>.
Truthy(s) == s # <<>> /\ s[1] # <<"">>

\* The segments at which "/repos/" matches: a segment "repos" with a "/"
\* on both sides.
ReposAt(segs) == {i \in 2..(Len(segs) - 1) : segs[i] = "repos"}

Min(S) == CHOOSE m \in S : \A x \in S : m <= x

\* u.split("/repos/")[1].split("/"), for a u in which "/repos/" occurs: the
\* segments between the first match and the next one that does not overlap it.
RepoPart(segs) ==
    LET rest == SubSeq(segs, Min(ReposAt(segs)) + 1, Len(segs))
    IN  IF ReposAt(rest) = {} THEN rest
        ELSE SubSeq(rest, 1, Min(ReposAt(rest)) - 1)

ParentCoordinatesSameRepo(o, r, parent) == <<o, r, parent.number>>

\* main.py 108-118: the coordinates the pipeline is restarted with.
ParentCoordinates(o, r, parent) ==
    IF /\ Truthy(parent.repository_url)
       /\ ReposAt(parent.repository_url[1]) # {}
       /\ Len(RepoPart(parent.repository_url[1])) >= 2
    THEN <<RepoPart(parent.repository_url[1])[1],
           RepoPart(parent.repository_url[1])[2], parent.number>>
    ELSE <<o, r, parent.number>>

\* ----------------------------------------------------------- Query Parser
\* A Python str is the sequence of its characters.  The queries are over
\* lower-case letters, digits and the characters / # : . - ? (no white
\* space, no ";", no "+", no "_").
Letters ==
    {"a", "b", "c", "d", "e", "f", "g", "h", "i", "j", "k", "l", "m", "n",
     "o", "p", "q", "r", "s", "t", "u", "v", "w", "x", "y", "z"}
Digits == {"0", "1", "2", "3", "4", "5", "6", "7", "8", "9"}

\* str.startswith
StartsWith(s, p) == Len(s) >= Len(p) /\ SubSeq(s, 1, Len(p)) = p

\* The first position at or after `from` that holds a character of C;
\* 0 when there is none (str.find's -1).
Find(s, C, from) ==
    LET at == {i \in from..Len(s) : s[i] \in C}
    IN  IF at = {} THEN 0 ELSE CHOOSE i \in at : \A k \in at : i <= k

\* urlsplit: a leading scheme (a letter, then letters, digits, + - .) and
\* its ":" are taken off.
SchemeChars == Letters \cup Digits \cup {"+", "-", "."}
AfterScheme(s) ==
    LET i == Find(s, {":"}, 1)
    IN  IF i > 1 /\ s[1] \in Letters /\ \A k \in 1..(i - 1) : s[k] \in SchemeChars
        THEN SubSeq(s, i + 1, Len(s))
        ELSE s

\* urlsplit: after "//" the network location runs to the first of / ? #.
AfterNetloc(u) ==
    IF StartsWith(u, <<"/", "/">>)
    THEN LET d == Find(u, {"/", "?", "#"}, 3)
         IN  IF d = 0 THEN <<>> ELSE SubSeq(u, d, Len(u))
    ELSE u

\* u.split(c, 1)[0]
UpTo(u, c) ==
    LET i == Find(u, {c}, 1)
    IN  IF i = 0 THEN u ELSE SubSeq(u, 1, i - 1)

\* main.py 21: urlparse(query).path, the fragment and then the query
\* string cut off.
UrlPath(s) == UpTo(UpTo(AfterNetloc(AfterScheme(s)), "#"), "?")

\* str.strip(c)
Strip(s, c) ==
    LET keep == {i \in 1..Len(s) : s[i] # c}
    IN  IF keep = {} THEN <<>>
        ELSE SubSeq(s, CHOOSE i \in keep : \A k \in keep : i <= k,
                       CHOOSE i \in keep : \A k \in keep : i >= k)

\* str.split(c): the empty string splits into one empty part.
RECURSIVE Split(_, _)
Split(s, c) ==
    LET i == Find(s, {c}, 1)
    IN  IF i = 0 THEN <<s>>
        ELSE <<SubSeq(s, 1, i - 1)>> \o Split(SubSeq(s, i + 1, Len(s)), c)

\* \d+
IsDigits(s) == Len(s) > 0 /\ \A i \in 1..Len(s) : s[i] \in Digits

DigitValue ==
    ("0" :> 0) @@ ("1" :> 1) @@ ("2" :> 2) @@ ("3" :> 3) @@ ("4" :> 4) @@
    ("5" :> 5) @@ ("6" :> 6) @@ ("7" :> 7) @@ ("8" :> 8) @@ ("9" :> 9)

RECURSIVE Decimal(_)
Decimal(s) ==
    IF s = <<>> THEN 0
    ELSE 10 * Decimal(SubSeq(s, 1, Len(s) - 1)) + DigitValue[s[Len(s)]]

\* int(s) returns for decimal digits with an optional sign; anything else
\* is a ValueError.
IntAccepts(s) == IsDigits(s) \/ (Len(s) > 1 /\ s[1] = "-" /\ IsDigits(Tail(s)))
int(s) == IF s[1] = "-" THEN 0 - Decimal(Tail(s)) ELSE Decimal(s)

Http == <<"h", "t", "t", "p">>
IssuesWord == <<"i", "s", "s", "u", "e", "s">>

\* main.py 23: parsed.path.strip("/").split("/")
PathParts(q) == Split(Strip(UrlPath(q), "/"), "/")

\* main.py 28: re.match(r"^([^/]+)/([^/]+)#(\d+)$", query): the positions
\* <<i, j>> of the "/" and the "#" of a match.  No group holds a "/" and
\* the digits hold no "#", so there is at most one.
ShorthandMatches(q) ==
    { m \in (1..Len(q)) \X (1..Len(q)) :
        /\ q[m[1]] = "/" /\ q[m[2]] = "#"
        /\ 1 < m[1] /\ m[1] + 1 < m[2]
        /\ \A k \in 1..(m[2] - 1) : k # m[1] => q[k] # "/"
        /\ IsDigits(SubSeq(q, m[2] + 1, Len(q))) }

\* main.py 14-36: <<>> is the ValueError, <<t>> the triple returned.
ParseIssueQuery(q) ==
    IF /\ StartsWith(q, Http)
       /\ Len(PathParts(q)) >= 4
       /\ PathParts(q)[3] = IssuesWord
    THEN IF IntAccepts(PathParts(q)[4])
         THEN <<<<PathParts(q)[1], PathParts(q)[2], int(PathParts(q)[4])>>>>
         ELSE <<>>
    ELSE IF ShorthandMatches(q) # {}
         THEN LET m == CHOOSE m \in ShorthandMatches(q) : TRUE
              IN  <<<<SubSeq(q, 1, m[1] - 1), SubSeq(q, m[1] + 1, m[2] - 1),
                      int(SubSeq(q, m[2] + 1, Len(q)))>>>>
         ELSE <<>>

\* ------------------------------------------------------------ the inputs
\* What parse_issue_query hands to summarize.
Queries == { <<"octo", "widgets", 42>> }

\* The command lines: both forms over a few names and numeric components,
\* and strings of neither form.
Acme == <<"a", "c", "m", "e">>
Octo == <<"o", "c", "t", "o">>
Widgets == <<"w", "i", "d", "g", "e", "t", "s">>
Core == <<"c", "o", "r", "e">>
OwnerNames == {Acme, Octo, Http}
RepoNames == {Widgets, Core}
NumberTexts ==
    { <<"4", "2">>, <<"7">>, <<"0", "0", "7">>, <<"0">>, <<"-", "5">>,
      <<"x">>, <<"4", "x">>, <<>> }

GitHub ==
    <<"h", "t", "t", "p", "s", ":", "/", "/", "g", "i", "t", "h", "u", "b",
      ".", "c", "o", "m", "/">>
UrlForm(o, r, n) ==
    GitHub \o o \o <<"/">> \o r \o <<"/">> \o IssuesWord \o <<"/">> \o n
ShortForm(o, r, n) == o \o <<"/">> \o r \o <<"#">> \o n

OtherQueries ==
    { <<>>,
      <<"4", "2">>,
      Acme \o <<"/">> \o Widgets,
      Acme \o <<"#", "4", "2">>,
      Acme \o <<"/">> \o Widgets \o <<"/">> \o IssuesWord \o <<"/", "4", "2">>,
      <<"g", "i", "t", "h", "u", "b", ".", "c", "o", "m", "/">>
          \o ShortForm(Acme, Widgets, <<"4", "2">>),
      GitHub \o Acme \o <<"/">> \o Widgets \o <<"/">> \o IssuesWord,
      GitHub \o Acme \o <<"/">> \o Widgets
          \o <<"/", "p", "u", "l", "l", "/", "4", "2">> }

ParseInputs ==
    {UrlForm(o, r, n) : o \in OwnerNames, r \in RepoNames, n \in NumberTexts}
    \cup
    {ShortForm(o, r, n) : o \in OwnerNames, r \in RepoNames, n \in NumberTexts}
    \cup OtherQueries

\* The command line of the invocation whose pipeline is followed, and the
\* names of its triple as the pipeline writes them.
PipelineQueries == {ShortForm(Octo, Widgets, <<"4", "2">>)}
Text == (Octo :> "octo") @@ (Widgets :> "widgets")
Named(t) == <<Text[t[1]], Text[t[2]], t[3]>>

\* The parent objects the server serves at parent_issue_url.
FetchedParents ==
    { IssueStub(7, "fetched", u) :
        u \in {JNull} \cup {Str(r) : r \in RepositoryUrls} }

\* Values of the "parent" key of the primary record: null, an object of
\* the wrong shape, a well-formed parent.
InlineParents ==
    { JNull, MalformedStub,
      IssueStub(7, "inline", Str(ApiUrl(<<"repos", "acme", "core">>))) }

\* Values of the "parent_issue_url" key of the primary record.
ParentIssueUrls == {Str(ApiUrl(<<"repos", "acme", "core", "issues", "7">>))}

\* The primary records a 200 response may carry (the keys get_issue reads).
IssueRecords ==
    [ sub_issues_summary :
          {<<>>} \cup {<<[total |-> k]>> : k \in 0..MaxSubIssues},
      parent : {<<>>} \cup {<<p>> : p \in InlineParents},
      parent_issue_url : {<<>>} \cup {<<u>> : u \in ParentIssueUrls} ]

\* How a request can end: the transport raises, the status is not a
\* success, the body is not JSON, the JSON has the wrong shape, or all is well.
NetworkError == "network_error"
HttpError == "http_error"
Undecodable == "undecodable"
Malformed == "malformed"
Ok == "ok"

NoResponses ==
    [k \in {"issue", "comments", "events", "sub_issues", "parent", "readme",
            "patch"} |-> "none"]

\* ------------------------------------------------------------- the state
VARIABLES
    issue_query,    \* the command line's query, a str
    query,          \* (owner, repo, number) as parsed from the command line
    update,         \* --update
    update_parent,  \* --update-parent
    verbose,        \* --verbose
    owner, repo, issue_number,  \* the coordinates being processed
    pc,             \* where the invocation stands
    phase,          \* "child": summarize's own get_issue; "process": process_issue
    issue_data,     \* get_issue: the decoded primary record, <<>> before
    chain,          \* the server's chain of the collection being fetched
    coll,           \* _get_all_pages: which collection, "" outside
    url,            \* _get_all_pages: the URL to request next, <<>> is None
    all_items,      \* _get_all_pages: the accumulator
    visited,        \* the page URLs this _get_all_pages call has requested
    fetched,        \* get_issue: comments_data / events_data and their chains
    sub_issues,     \* get_issue: sub_issues
    parent_obj,     \* get_issue: parent_obj
    resp,           \* how this call's latest request of each kind ended
    issue,          \* the thread get_issue returned, <<>> before
    readme_content, \* process_issue: readme_content
    console,        \* what the command has printed, in order
    error,          \* the exception that ended the command, <<>> if none
    summary_calls,  \* calls of get_summary
    patches         \* the coordinates of every PATCH sent

inputs == <<issue_query, query, update, update_parent, verbose>>
target == <<owner, repo, issue_number>>
pager == <<chain, coll, url, all_items, visited>>
locals == <<issue_data, fetched, sub_issues, parent_obj>>
tail == <<readme_content, summary_calls, patches>>
vars == <<inputs, target, pc, phase, pager, locals, resp, issue, console,
          error, tail>>

NoFetched == [comments |-> <<>>, events |-> <<>>]

Init ==
    /\ issue_query \in PipelineQueries
    /\ query \in Queries
    /\ query = Named(ParseIssueQuery(issue_query)[1])
    /\ update \in BOOLEAN
    /\ update_parent \in BOOLEAN
    /\ verbose \in BOOLEAN
    /\ owner = query[1] /\ repo = query[2] /\ issue_number = query[3]
    /\ pc = "summarize"
    /\ phase = ""
    /\ issue_data = <<>>
    /\ chain = <<>> /\ coll = "" /\ url = <<>> /\ all_items = <<>>
    /\ visited = <<>>
    /\ fetched = NoFetched
    /\ sub_issues = <<>>
    /\ parent_obj = <<>>
    /\ resp = NoResponses
    /\ issue = <<>>
    /\ readme_content = <<>>
    /\ console = <<>>
    /\ error = <<>>
    /\ summary_calls = 0
    /\ patches = <<>>

\* An exception leaves get_issue: its frames and their locals are gone, and
\* main.py 125-128 prints "Input Error" for a ValueError, "Error" otherwise.
Raise(what, class) ==
    /\ pc' = "done"
    /\ error' = <<what>>
    /\ console' = Append(console,
                         IF class = "ValueError" THEN "Input Error" ELSE "Error")
    /\ issue_data' = <<>> /\ fetched' = NoFetched
    /\ sub_issues' = <<>> /\ parent_obj' = <<>>
    /\ chain' = <<>> /\ coll' = "" /\ url' = <<>> /\ all_items' = <<>>
    /\ visited' = <<>>

\* main.py 98, 125-126: summarize parses the command line; the ValueError
\* of a query that cannot be parsed is printed as "Input Error".
ParseQuery ==
    /\ pc = "parse"
    /\ IF ParseIssueQuery(issue_query) = <<>>
       THEN /\ Raise("query", "ValueError")
            /\ UNCHANGED query
       ELSE /\ query' = ParseIssueQuery(issue_query)[1]
            /\ pc' = "parsed"
            /\ UNCHANGED <<pager, locals, console, error>>
    /\ UNCHANGED <<issue_query, update, update_parent, verbose, target, phase,
                   resp, issue, tail>>

\* main.py 97-103, 123: after parsing, fetch the child (--update-parent) or
\* enter process_issue.
Summarize ==
    /\ pc = "summarize"
    /\ phase' = IF update_parent THEN "child" ELSE "process"
    /\ pc' = "get_issue"
    /\ UNCHANGED <<inputs, target, pager, locals, resp, issue, console, error,
                   tail>>

\* ---------------------------------------------------------------- get_issue
PrimaryRaisesOnTransportOnly(out) == out = NetworkError

\* github.py 97-99: client.get raises on a transport error, raise_for_status
\* on a non-success status, response.json() on a body that is not JSON.
PrimaryRaises(out) == out # Ok

\* The class of the exception a failed request raises.
RaisedClass(out) == IF out = Undecodable THEN "ValueError" ELSE "HTTPError"

\* github.py 94-105 and 70: the primary GET, then _get_all_pages is entered
\* for comments_url.
GetIssue_Primary ==
    /\ pc = "get_issue"
    /\ \E out \in {NetworkError, HttpError, Undecodable, Ok} :
         /\ resp' = [NoResponses EXCEPT !.issue = out]
         /\ IF PrimaryRaises(out)
            THEN Raise("issue", RaisedClass(out))
            ELSE /\ \E rec \in IssueRecords : issue_data' = <<rec>>
                 /\ coll' = "comments"
                 /\ url' = <<PageUrl("comments", 1)>>
                 /\ all_items' = <<>>
                 /\ visited' = <<>>
                 /\ chain' = <<>>
                 /\ pc' = "pages"
                 /\ UNCHANGED <<fetched, sub_issues, parent_obj, console, error>>
    /\ UNCHANGED <<inputs, target, phase, issue, tail>>

\* github.py 76: all_items.extend(items)
Extend(acc, items) == acc \o items

\* github.py 71-90: one turn of the loop of _get_all_pages.  The server
\* fixes the chain of the collection when its first page is requested.
GetAllPages_Request ==
    /\ pc = "pages"
    /\ url # <<>>
    /\ \E c \in (IF chain = <<>> THEN Chains(coll) ELSE {chain[1]}),
          out \in {NetworkError, HttpError, Undecodable, Malformed, Ok} :
         /\ resp' = [resp EXCEPT ![coll] = out]
         /\ CASE out \in {NetworkError, HttpError, Undecodable} ->
                   \* client.get, raise_for_status or resp.json() raises
                   Raise(coll, RaisedClass(out))
              [] out = Malformed ->
                   \* the payload is not a list: break, return all_items
                   /\ chain' = <<c>>
                   /\ visited' = Append(visited, url[1])
                   /\ pc' = "pages_return"
                   /\ UNCHANGED <<coll, url, all_items, locals, console, error>>
              [] out = Ok ->
                   /\ chain' = <<c>>
                   /\ visited' = Append(visited, url[1])
                   /\ all_items' = Extend(all_items, PageItems(c, url[1][2]))
                   /\ url' = NextUrl(LinkHeader(coll, c, url[1][2]))
                   /\ pc' = IF url' = <<>> THEN "pages_return" ELSE "pages"
                   /\ UNCHANGED <<coll, locals, console, error>>
    /\ UNCHANGED <<inputs, target, phase, issue, tail>>

\* github.py 91, 105-112: _get_all_pages returns all_items to get_issue,
\* which goes on to the events, then to the sub-issues.
GetAllPages_Return ==
    /\ pc = "pages_return"
    /\ fetched' = [fetched EXCEPT
                     ![coll] = <<[items |-> all_items, chain |-> chain[1]]>>]
    /\ all_items' = <<>>
    /\ visited' = <<>>
    /\ chain' = <<>>
    /\ IF coll = "comments"
       THEN /\ coll' = "events"
            /\ url' = <<PageUrl("events", 1)>>
            /\ pc' = "pages"
       ELSE /\ coll' = ""
            /\ url' = <<>>
            /\ pc' = "sub_issues"
    /\ UNCHANGED <<inputs, target, phase, issue_data, sub_issues, parent_obj,
                   resp, issue, console, error, tail>>

SubIssuesAdvertisedIfSummary(rec) == rec.sub_issues_summary # <<>>

\* github.py 119: "sub_issues_summary" in issue_data and its total > 0
SubIssuesAdvertised(rec) ==
    rec.sub_issues_summary # <<>> /\ rec.sub_issues_summary[1].total > 0

\* A sub-issue list of k stubs as the server holds it.
SubIssueStubs(k) == [j \in 1..k |-> IssueStub(100 + j, "sub", JNull)]

\* [SimpleIssue(**s) for s in sub_data]
SimpleIssues(data) == [j \in 1..Len(data) |-> SimpleIssue(data[j])]

\* github.py 117-127: the sub-issues resolver.
GetIssue_SubIssues ==
    /\ pc = "sub_issues"
    /\ IF SubIssuesAdvertised(issue_data[1])
       THEN \E out \in {NetworkError, HttpError, Undecodable, Malformed, Ok} :
              /\ resp' = [resp EXCEPT !.sub_issues = out]
              /\ IF out = Ok
                 THEN \E k \in 0..MaxSubIssues :
                        sub_issues' = SimpleIssues(SubIssueStubs(k))
                 ELSE sub_issues' = <<>>
              /\ console' = IF out \in {NetworkError, Undecodable, Malformed}
                            THEN Append(console, "Warning: sub-issues")
                            ELSE console
       ELSE /\ sub_issues' = <<>>
            /\ UNCHANGED <<resp, console>>
    /\ pc' = "parent"
    /\ UNCHANGED <<inputs, target, phase, pager, issue_data, fetched,
                   parent_obj, issue, error, tail>>

ParentPathUrlFirst(rec) ==
    IF rec.parent_issue_url # <<>> /\ rec.parent_issue_url[1] # JNull
    THEN "url"
    ELSE IF rec.parent # <<>> THEN "inline" ELSE "none"

\* github.py 131, 135: "parent" in issue_data, elif a truthy parent_issue_url.
ParentPath(rec) ==
    IF rec.parent # <<>> THEN "inline"
    ELSE IF rec.parent_issue_url # <<>> /\ rec.parent_issue_url[1] # JNull
         THEN "url"
         ELSE "none"

\* github.py 145-151: Issue(**issue_data, comments_list=..., ...).
Issue(comments, events, subs, parent) ==
    [ comments_list |-> comments, events_list |-> events,
      sub_issues_list |-> subs, parent |-> parent ]

\* github.py 129-153: the parent resolver, then the thread is assembled.
GetIssue_Parent ==
    /\ pc = "parent"
    /\ LET rec == issue_data[1]
           Assemble(p) ==
               /\ parent_obj' = p
               /\ issue' = <<Issue(fetched.comments[1].items,
                                   fetched.events[1].items, sub_issues, p)>>
               /\ pc' = "returned"
               /\ UNCHANGED <<pager, issue_data, fetched, sub_issues, error>>
       IN  CASE ParentPath(rec) = "inline" ->
                  /\ UNCHANGED resp
                  /\ IF SimpleIssueValid(rec.parent[1])
                     THEN /\ Assemble(<<SimpleIssue(rec.parent[1])>>)
                          /\ UNCHANGED console
                     ELSE \* SimpleIssue(**issue_data["parent"]) raises
                          /\ Raise("parent",
                                   IF IsMapping(rec.parent[1])
                                   THEN "ValueError" ELSE "TypeError")
                          /\ UNCHANGED issue
             [] ParentPath(rec) = "url" ->
                  \E out \in {NetworkError, HttpError, Undecodable, Malformed, Ok} :
                    /\ resp' = [resp EXCEPT !.parent = out]
                    /\ IF out = Ok
                       THEN \E p \in FetchedParents : Assemble(<<SimpleIssue(p)>>)
                       ELSE Assemble(<<>>)
                    /\ console' = IF out \in {NetworkError, Undecodable, Malformed}
                                  THEN Append(console, "Warning: parent")
                                  ELSE console
             [] ParentPath(rec) = "none" ->
                  /\ Assemble(<<>>)
                  /\ UNCHANGED <<resp, console>>
    /\ UNCHANGED <<inputs, target, phase, tail>>

\* github.py 153: get_issue returns the thread to main.py 103 or 41.
GetIssue_Return ==
    /\ pc = "returned"
    /\ issue_data' = <<>>
    /\ fetched' = NoFetched
    /\ sub_issues' = <<>>
    /\ parent_obj' = <<>>
    /\ resp' = NoResponses
    /\ pc' = IF phase = "child" THEN "navigate" ELSE "readme"
    /\ UNCHANGED <<inputs, target, phase, pager, issue, console, error, tail>>

\* ------------------------------------------------------------------ main.py
\* main.py 105-121: with --update-parent, retarget the run at the parent of
\* the fetched child, or stop when it has none.
Navigate ==
    /\ pc = "navigate"
    /\ IF issue[1].parent # <<>>
       THEN LET t == ParentCoordinates(owner, repo, issue[1].parent[1])
            IN  /\ owner' = t[1]
                /\ repo' = t[2]
                /\ issue_number' = t[3]
                /\ console' = Append(console, "Found parent issue")
                /\ phase' = "process"
                /\ pc' = "get_issue"
       ELSE /\ console' = Append(console, "No parent issue found")
            /\ pc' = "done"
            /\ UNCHANGED <<target, phase>>
    /\ issue' = <<>>
    /\ UNCHANGED <<inputs, pager, locals, resp, error, tail>>

\* github.py 155-177 (called at main.py 42): the README, or None on a 404,
\* on any other status and on a transport error.
GetReadme ==
    /\ pc = "readme"
    /\ \E out \in {NetworkError, HttpError, "not_found", Ok} :
         /\ resp' = [resp EXCEPT !.readme = out]
         /\ IF out = Ok
            THEN \E text \in {"", "readme"} : readme_content' = <<text>>
            ELSE readme_content' = <<>>
         /\ console' = IF out \in {NetworkError, HttpError}
                       THEN Append(console, "Error fetching README")
                       ELSE console
    /\ pc' = "report"
    /\ UNCHANGED <<inputs, target, phase, pager, locals, issue, error,
                   summary_calls, patches>>

NoCommentsNever(thread) == FALSE

\* main.py 51: not issue.comments_list
NoComments(thread) == thread.comments_list = <<>>

\* main.py 44-59: print the metadata; stop if there are no comments.
Report ==
    /\ pc = "report"
    /\ IF NoComments(issue[1])
       THEN /\ console' = console \o <<"Metadata", "No comments found">>
            /\ pc' = "done"
       ELSE /\ console' = console \o
                  <<"Metadata",
                    IF readme_content # <<>> /\ readme_content[1] # ""
                    THEN "README: Found" ELSE "README: Not found",
                    "Generating Summary">>
            /\ pc' = "summarizer"
    /\ UNCHANGED <<inputs, target, phase, pager, locals, resp, issue, error,
                   tail>>

\* main.py 60-63, 78-80 and llm.py 6-102: get_summary raises ValueError
\* without ANTHROPIC_API_KEY, may fail in the API call, or returns markdown.
GetSummary ==
    /\ pc = "summarizer"
    /\ summary_calls' = summary_calls + 1
    /\ \E out \in {"no_api_key", "api_error", Ok} :
         CASE out = "no_api_key" ->
                /\ pc' = "done"
                /\ error' = <<"summary">>
                /\ console' = console \o
                       <<"Warning: Skipping AI summary", "Input Error">>
           [] out = "api_error" ->
                /\ pc' = "done"
                /\ error' = <<"summary">>
                /\ console' = console \o
                       (IF verbose THEN <<"LLM Prompt">> ELSE <<>>) \o <<"Error">>
           [] out = Ok ->
                /\ pc' = IF update THEN "update" ELSE "done"
                /\ console' = console \o
                       (IF verbose THEN <<"LLM Prompt">> ELSE <<>>) \o
                       <<"AI Summary">>
                /\ UNCHANGED error
    /\ UNCHANGED <<inputs, target, phase, pager, locals, resp, issue,
                   readme_content, patches>>

PatchTargetFromQuery == query

\* main.py 73: client.update_issue(owner, repo, issue_number, ...) with
\* process_issue's own arguments.
PatchTarget == <<owner, repo, issue_number>>

\* main.py 65-76 and github.py 179-191: one PATCH of the issue body.
UpdateIssue ==
    /\ pc = "update"
    /\ \E out \in {NetworkError, HttpError, Ok} :
         /\ resp' = [resp EXCEPT !.patch = out]
         /\ console' = Append(console,
                              IF out = Ok THEN "Successfully updated issue"
                              ELSE "Error updating issue")
    /\ patches' = Append(patches, PatchTarget)
    /\ pc' = "done"
    /\ UNCHANGED <<inputs, target, phase, pager, locals, issue, error,
                   readme_content, summary_calls>>

Next ==
    \/ Summarize
    \/ GetIssue_Primary
    \/ GetAllPages_Request
    \/ GetAllPages_Return
    \/ GetIssue_SubIssues
    \/ GetIssue_Parent
    \/ GetIssue_Return
    \/ Navigate
    \/ GetReadme
    \/ Report
    \/ GetSummary
    \/ UpdateIssue

Spec == Init /\ [][Next]_vars

\* parse_issue_query on its own: every command line, one call.
InitParse ==
    /\ issue_query \in ParseInputs
    /\ query = <<>>
    /\ update = FALSE /\ update_parent = FALSE /\ verbose = FALSE
    /\ owner = "" /\ repo = "" /\ issue_number = 0
    /\ pc = "parse"
    /\ phase = ""
    /\ issue_data = <<>>
    /\ chain = <<>> /\ coll = "" /\ url = <<>> /\ all_items = <<>>
    /\ visited = <<>>
    /\ fetched = NoFetched
    /\ sub_issues = <<>>
    /\ parent_obj = <<>>
    /\ resp = NoResponses
    /\ issue = <<>>
    /\ readme_content = <<>>
    /\ console = <<>>
    /\ error = <<>>
    /\ summary_calls = 0
    /\ patches = <<>>

NextParse == ParseQuery

SpecParse == InitParse /\ [][NextParse]_vars

\* ------------------------------------------------------------- the claims
\* The ways a request can fail.
Failures == {NetworkError, HttpError, Undecodable, Malformed}

\* The page URLs of a chain, first to last.
ChainUrls(c, k) == [i \in 1..k.n |-> PageUrl(c, i)]

\* The thread holds every record of both chains.
ThreadComplete ==
    /\ issue[1].comments_list = AllRecords(fetched.comments[1].chain)
    /\ issue[1].events_list = AllRecords(fetched.events[1].chain)

\* C1: when every page of the chain was served as a list, _get_all_pages
\* has requested page 1 and then each rel="next" target up to the page that
\* carries no next link, and returns the pages' records concatenated in
\* response order, none dropped, duplicated or reordered.
C1_PaginationTransparent ==
    (pc = "pages_return" /\ resp[coll] = Ok) =>
        /\ visited = ChainUrls(coll, chain[1])
        /\ all_items = AllRecords(chain[1])

\* A three-page chain of comments has been fetched whole.
C1_Witness ==
    /\ pc = "pages_return" /\ resp[coll] = Ok
    /\ chain[1].n >= 3
    /\ Len(all_items) >= 3
    /\ Len(visited) = chain[1].n

\* C2: a returned thread holds the records of every page of both chains,
\* and _get_all_pages never returns after a page that was not a list of
\* records.
C2_NoPartialCollection ==
    /\ pc = "returned" => ThreadComplete
    /\ pc = "pages_return" => resp[coll] = Ok

\* C3: after a non-success status on the primary GET the command is over:
\* get_issue raised, no other request was made, the summarizer was not
\* called, no PATCH was sent, nothing more can happen, and the console ends
\* with the error and shows no summary.
C3_PrimaryFailureAborts ==
    resp.issue = HttpError =>
        /\ pc = "done"
        /\ error = <<"issue">>
        /\ \A k \in DOMAIN resp : k # "issue" => resp[k] = "none"
        /\ summary_calls = 0
        /\ patches = <<>>
        /\ ~ENABLED Next
        /\ console # <<>>
        /\ console[Len(console)] \in {"Error", "Input Error"}
        /\ \A i \in 1..Len(console) : console[i] # "AI Summary"

\* The parent's primary GET failed after a redirect, with --update set.
C3_Witness ==
    /\ resp.issue = HttpError /\ pc = "done"
    /\ update /\ phase = "process" /\ update_parent

\* C4: a failed request for a page of the comments does not end the
\* invocation with the fetch error; the run goes on as for an issue with no
\* comments.
C4_CommentsFailureDegrades ==
    resp.comments \in {NetworkError, HttpError} =>
        /\ error = <<>>
        /\ pc = "done" => \E i \in 1..Len(console) :
                             console[i] = "No comments found"

\* C5: when the primary record advertises no sub-issue count, or zero,
\* get_issue sends no request to the sub-issues endpoint and the thread has
\* no sub-issues; so a thread has sub-issues only if a positive count was
\* advertised.
C5_NoSubIssueRequestWithoutCount ==
    /\ ( /\ pc \in {"parent", "returned"}
         /\ \/ issue_data[1].sub_issues_summary = <<>>
            \/ issue_data[1].sub_issues_summary[1].total <= 0 ) =>
           /\ resp.sub_issues = "none"
           /\ sub_issues = <<>>
           /\ pc = "returned" => issue[1].sub_issues_list = <<>>
    /\ (pc = "returned" /\ issue[1].sub_issues_list # <<>>) =>
           /\ issue_data[1].sub_issues_summary # <<>>
           /\ issue_data[1].sub_issues_summary[1].total > 0

\* get_issue returned for a record that advertises zero sub-issues.
C5_Witness ==
    /\ pc = "returned"
    /\ issue_data[1].sub_issues_summary = <<[total |-> 0]>>
    /\ resp.sub_issues = "none"
    /\ issue[1].sub_issues_list = <<>>

\* C6: once the sub-issues request has failed, nothing is raised out of
\* get_issue, and the thread it returns has complete comments and events
\* and no sub-issues.
C6_SubIssueFailureNeverBlocks ==
    resp.sub_issues \in Failures =>
        /\ error = <<>>
        /\ pc = "returned" =>
              /\ issue[1].sub_issues_list = <<>>
              /\ ThreadComplete

\* C7: with an inline parent object and a parent_issue_url both on the
\* primary record, the thread's parent is the inline object and no GET goes
\* to the parent URL; a run never takes both paths.
C7_InlineParentPrecedence ==
    /\ ( /\ pc = "returned"
         /\ issue_data[1].parent # <<>>
         /\ issue_data[1].parent_issue_url # <<>> ) =>
           /\ resp.parent = "none"
           /\ issue[1].parent # <<>>
           /\ \A f \in SimpleIssueRequired :
                  issue[1].parent[1][f] = issue_data[1].parent[1][f]
           /\ issue[1].parent[1].repository_url =
                  <<issue_data[1].parent[1].repository_url.str>>
    /\ (pc = "returned" /\ resp.parent # "none") => issue_data[1].parent = <<>>
    /\ error = <<"parent">> => resp.parent = "none"

\* get_issue returned the inline parent of a record that also had the URL.
C7_Witness ==
    /\ pc = "returned"
    /\ issue_data[1].parent # <<>>
    /\ issue_data[1].parent_issue_url # <<>>
    /\ issue[1].parent # <<>>
    /\ issue[1].parent[1].html_url = "inline"

\* C8: parent resolution never raises out of get_issue, whatever the shape
\* of the parent reference and the outcome of the follow-up GET; and the
\* thread has a parent only if it came from the inline object or from a
\* successful fetch.
C8_ParentNeverAborts ==
    /\ error # <<"parent">>
    /\ (pc = "returned" /\ issue[1].parent # <<>>) =>
           \/ issue_data[1].parent # <<>>
           \/ resp.parent = Ok

\* C9: once process_issue holds a thread without comments, it only reports
\* and returns: the summarizer is never called and no PATCH is sent.
C9_ZeroCommentsEndsEarly ==
    (phase = "process" /\ issue # <<>> /\ issue[1].comments_list = <<>>) =>
        /\ pc \in {"returned", "readme", "report", "done"}
        /\ summary_calls = 0
        /\ patches = <<>>
        /\ error = <<>>
        /\ pc = "done" =>
              /\ \E i \in 1..Len(console) : console[i] = "Metadata"
              /\ console[Len(console)] = "No comments found"

\* process_issue returned early with --update and --verbose set and a README.
C9_Witness ==
    /\ pc = "done" /\ phase = "process"
    /\ issue # <<>> /\ issue[1].comments_list = <<>>
    /\ update /\ verbose
    /\ readme_content = <<"readme">>

\* C10: the navigator stops the run when the child has no parent (no README
\* request, no summarizer call, no PATCH); otherwise it restarts the
\* pipeline at parent.number in the owner/repo that follow "/repos/" in
\* parent.repository_url, or in the child's own when the parent has none.
C10_ParentChainNavigator ==
    [][ pc = "navigate" =>
          IF issue[1].parent = <<>>
          THEN /\ pc' = "done"
               /\ resp'.readme = "none"
               /\ summary_calls' = 0
               /\ patches' = <<>>
          ELSE LET p == issue[1].parent[1]
                   u == p.repository_url
               IN  /\ pc' = "get_issue" /\ phase' = "process"
                   /\ issue' = <<>>
                   /\ issue_number' = p.number
                   /\ u = <<>> => (owner' = query[1] /\ repo' = query[2])
                   /\ ( /\ u # <<>>
                        /\ Len(u[1]) >= 3
                        /\ u[1][Len(u[1]) - 2] = "repos" ) =>
                          /\ owner' = u[1][Len(u[1]) - 1]
                          /\ repo' = u[1][Len(u[1])]
      ]_vars

\* The child octo/widgets#42 was redirected to its parent acme/core#7.
C10_Witness ==
    /\ update_parent /\ phase = "process" /\ pc = "get_issue"
    /\ query = <<"octo", "widgets", 42>>
    /\ <<owner, repo, issue_number>> = <<"acme", "core", 7>>

\* The numerals of a positive integer, each with the integer it denotes.
PositiveNumerals ==
    { [text |-> <<"4", "2">>, value |-> 42],
      [text |-> <<"7">>, value |-> 7],
      [text |-> <<"0", "0", "7">>, value |-> 7] }

\* The command line is of one of the two grammars, /{owner}/{repo}/issues/
\* {number} in a URL or {owner}/{repo}#{number}, with a positive number.
WellFormed(q) ==
    \E o \in OwnerNames, r \in RepoNames, n \in PositiveNumerals :
        q \in {UrlForm(o, r, n.text), ShortForm(o, r, n.text)}

\* C11: parse_issue_query raises the invalid-query ValueError for every
\* command line that is of neither grammar or whose numeric component is not
\* a positive integer (zero, negative, not a number); so every triple it
\* returns has a number of at least 1, and the URL form and the shorthand
\* form of one issue return the same triple (owner, repo, number).
C11_ParserRejectsInvalid ==
    pc # "parse" =>
        /\ ~WellFormed(issue_query) =>
               query = <<>> /\ error = <<"query">> /\ pc = "done"
        /\ query # <<>> => query[3] >= 1
        /\ \A o \in OwnerNames, r \in RepoNames, n \in PositiveNumerals :
               issue_query \in {UrlForm(o, r, n.text), ShortForm(o, r, n.text)}
                   => query = <<o, r, n.value>>

\* C12: an invocation sends at most one PATCH; a PATCH is sent only with
\* --update and after get_summary has returned a summary, and it goes to
\* the coordinates whose thread was fetched and summarised (under
\* --update-parent the parent's, not the child's).  A run ended by an
\* error of get_summary or of a fetch has sent no PATCH, and a PATCH that
\* fails is reported and ends the run without a second one.
C12_WriteBackSafety ==
    /\ Len(patches) <= 1
    /\ patches # <<>> =>
           /\ update
           /\ summary_calls = 1
           /\ issue # <<>>
           /\ phase = "process"
           /\ patches[1] = <<owner, repo, issue_number>>
           /\ update_parent => patches[1] # query
           /\ ~update_parent => patches[1] = query
           /\ \E i \in 1..(Len(console) - 1) :
                  /\ console[i] = "AI Summary"
                  /\ console[Len(console)] \in
                         {"Successfully updated issue", "Error updating issue"}
    /\ error # <<>> => patches = <<>> /\ resp.patch = "none"
    /\ resp.patch \in {NetworkError, HttpError} =>
           /\ Len(patches) = 1
           /\ pc = "done"
           /\ console[Len(console)] = "Error updating issue"
           /\ ~ENABLED Next

\* A redirected run whose PATCH, sent to the parent, failed.
C12_Witness ==
    /\ update /\ update_parent
    /\ query = <<"octo", "widgets", 42>>
    /\ patches = << <<"acme", "core", 7>> >>
    /\ resp.patch = HttpError
    /\ pc = "done"
====
